---- MODULE Spec2Model ----
(***************************************************************************)
(* Batch conversion of a source tree into a mirrored tree of PDF files.    *)
(*                                                                         *)
(* Four scripts share one destination tree:                                *)
(*   file_converter.py      convert every supported file, no resume check  *)
(*   improved_converter.py  resume check, fallback chain for DOCX/DOC      *)
(*   force_converter.py     PDF copy pass, work list, validated fallback   *)
(*   copy_existing_pdfs.py  copy the source PDFs only                      *)
(*                                                                         *)
(* A run of a script is a sequence of steps: the start of main(), one step *)
(* per file of its loops and one step per adapter (backend) invocation.    *)
(* The backends are external converters: what a backend does in one        *)
(* invocation (not installed, returns normally, raises or exits non-zero,  *)
(* times out; leaves the output path alone, writes an empty file, writes a *)
(* non-empty file) is chosen nondeterministically at every invocation.     *)
(***************************************************************************)
EXTENDS Integers, Sequences, FiniteSets, TLC

\* Bounds of the model.
MaxFiles == 2          \* files in the source tree
MaxRuns == 2           \* runs of the scripts, one after the other
MaxSize == 2           \* file sizes are 1..MaxSize (0: an empty file)

Absent == -1           \* size of a path that does not exist
Keep == -2             \* backend effect: the output path is left as it was

Sizes == 1..MaxSize

(***************************************************************************)
(* Files and paths.  A file name is stem "." ext; the extension keeps its  *)
(* case and is lowered only where the code lowers it.                      *)
(***************************************************************************)
FileUniverse ==
  { [dir |-> ".", stem |-> "a", ext |-> "docx"],
    [dir |-> ".", stem |-> "a", ext |-> "doc"],
    [dir |-> ".", stem |-> "a", ext |-> "pdf"],
    [dir |-> "b", stem |-> "c", ext |-> "XLSX"],
    [dir |-> ".", stem |-> "n", ext |-> "txt"] }

\* mutant: the extension is compared as it is written
Lower_as_written(e) == e

\* str.lower() on the extensions of the universe.
Lower(e) ==
  CASE e = "XLSX" -> "xlsx"
    [] e = "PDF" -> "pdf"
    [] e = "DOCX" -> "docx"
    [] OTHER -> e

supported_extensions == {"docx", "doc", "xlsx", "xls", "pptx", "ppt", "png"}

\* file_path.suffix.lower() in supported_extensions
IsSupported(f) == Lower(f.ext) \in supported_extensions

\* file.lower().endswith('.pdf')
IsPdf(f) == Lower(f.ext) = "pdf"

\* os.path.join(output_dir, file_path.stem + '.pdf'), output_dir mirroring f.dir
OutputPath(f) == [dir |-> f.dir, stem |-> f.stem, ext |-> "pdf"]

\* os.path.join(target_folder, file): the name of a copied PDF is kept as it is
CopyTarget(f) == [dir |-> f.dir, stem |-> f.stem, ext |-> f.ext]

Key(f) == [dir |-> f.dir, stem |-> f.stem, ext |-> f.ext]

(***************************************************************************)
(* The path computation of the main loops.  A path is the sequence of its  *)
(* components below the project directory; a file name is a stem and an    *)
(* extension.                                                              *)
(***************************************************************************)
source_dir == <<"boltfiles">>
target_dir == <<"converted">>

\* the directory os.walk lists the file in
Root(f) == IF f.dir = "." THEN source_dir ELSE Append(source_dir, f.dir)

\* os.path.relpath(path, start), for a path at or below start
relpath(path, start) ==
  IF path = start THEN <<".">> ELSE SubSeq(path, Len(start) + 1, Len(path))

\* mutant: every output goes into target_dir itself
output_dir_flat(f) == target_dir

\* rel_path = relpath(root, source_dir); target_dir itself when rel_path is '.'
output_dir(f) ==
  LET rel_path == relpath(Root(f), source_dir)
  IN IF rel_path = <<".">> THEN target_dir ELSE target_dir \o rel_path

\* file_path.stem + '.pdf'
output_filename(f) == [stem |-> f.stem, ext |-> "pdf"]

\* os.path.join(output_dir, output_filename)
output_path(f) == [dir |-> output_dir(f), name |-> output_filename(f)]

\* os.path.join(target_folder, file) of the copy passes: the folder is
\* computed as output_dir is
target_folder(f) ==
  LET rel_path == relpath(Root(f), source_dir)
  IN IF rel_path = <<".">> THEN target_dir ELSE target_dir \o rel_path

\* create_directory_structure: target_path for a directory of the source
\* tree other than source_dir itself
target_path(dn) == target_dir \o relpath(Append(source_dir, dn), source_dir)

\* mutant: the external converter is run without --outdir and puts its file
\* beside the input
generated_pdf_beside_input(f) ==
  [dir |-> Root(f), name |-> [stem |-> f.stem, ext |-> "pdf"]]

\* convert_with_libreoffice: --outdir is os.path.dirname(output_file), the
\* generated file is base_name + '.pdf' there
generated_pdf(f) ==
  [dir |-> output_path(f).dir, name |-> [stem |-> f.stem, ext |-> "pdf"]]

\* the directories an adapter's backend writes into: LibreOffice its
\* generated file, then renamed to output_file; every other one output_file
write_dirs(name, f) ==
  IF name = "LibreOffice" THEN {generated_pdf(f).dir, output_path(f).dir}
  ELSE {output_path(f).dir}

\* the file under target_dir that a key of dst stands for
DestFile(q) ==
  [dir |-> IF q.dir = "." THEN target_dir ELSE Append(target_dir, q.dir),
   name |-> [stem |-> q.stem, ext |-> q.ext]]

DestPaths ==
  { OutputPath(u) : u \in { v \in FileUniverse : IsSupported(v) } }
    \cup { CopyTarget(u) : u \in { v \in FileUniverse : IsPdf(v) } }

AllDirs == { u.dir : u \in FileUniverse }

\* The source trees: at most MaxFiles files of the universe, each with a size.
SourceFiles ==
  { [dir |-> u.dir, stem |-> u.stem, ext |-> u.ext, size |-> s] :
      u \in FileUniverse, s \in Sizes }

SourceTrees ==
  { t \in SUBSET SourceFiles :
      /\ Cardinality(t) \in 1..MaxFiles
      /\ \A f, g \in t : Key(f) = Key(g) => f = g
      /\ \A f \in t : ~IsPdf(f) => f.size = 1 }

\* mutant: the walk may list a file more than once, and leave another out
WalkOrders_repeating(t) ==
  { w \in [1..Cardinality(t) -> t] :
      \A i, j \in 1..Cardinality(t) :
        (w[i].dir = "." /\ w[j].dir # ".") => i < j }

\* os.walk(source_dir): top-down, the files of the root before those of its
\* subdirectories; the order inside one directory is the directory listing's.
WalkOrders(t) ==
  { w \in [1..Cardinality(t) -> t] :
      /\ \A i, j \in 1..Cardinality(t) : i # j => w[i] # w[j]
      /\ \A i, j \in 1..Cardinality(t) :
           (w[i].dir = "." /\ w[j].dir # ".") => i < j }

(***************************************************************************)
(* The converter registry: the ordered candidates of each script for a     *)
(* file, by its lowered extension.                                         *)
(***************************************************************************)
Programs ==
  {"file_converter", "improved_converter", "force_converter", "copy_existing_pdfs"}

\* The formats: the branches of the dispatch on the lowered extension, each
\* with the extensions its test lists.
Formats == {"WordDoc", "Spreadsheet", "Presentation", "RasterImage"}

FormatExtensions(F) ==
  CASE F = "WordDoc" -> {"docx", "doc"}
    [] F = "Spreadsheet" -> {"xlsx", "xls"}
    [] F = "Presentation" -> {"pptx", "ppt"}
    [] F = "RasterImage" -> {"png"}

\* the branches whose test a lowered extension passes
FormatsOf(e) == { F \in Formats : e \in FormatExtensions(F) }

\* mutant: an extension no branch names is given a candidate all the same
force_methods_catch_all(e) ==
  CASE e \in {"docx", "doc"} -> <<"LibreOffice", "Pandoc", "Manual DOCX">>
    [] e \in {"xlsx", "xls"} -> <<"LibreOffice", "Manual XLSX">>
    [] e = "png" -> <<"Manual PNG">>
    [] OTHER -> <<"LibreOffice", "Pandoc">>

\* force_converter.py, force_convert_file: the methods list
force_methods(e) ==
  CASE e \in {"docx", "doc"} -> <<"LibreOffice", "Pandoc", "Manual DOCX">>
    [] e \in {"xlsx", "xls"} -> <<"LibreOffice", "Manual XLSX">>
    [] e \in {"pptx", "ppt"} -> <<"LibreOffice", "Pandoc">>
    [] e = "png" -> <<"Manual PNG">>
    [] OTHER -> <<>>

\* improved_converter.py, convert_file's conversion_map; convert_docx_to_pdf
\* holds the only chain, the other converters are one backend each
improved_methods(e) ==
  CASE e \in {"docx", "doc"} ->
         <<"docx2pdf", "python-docx + reportlab", "LibreOffice">>
    [] e \in {"xlsx", "xls"} -> <<"convert_xlsx_to_pdf">>
    [] e \in {"pptx", "ppt"} -> <<"convert_pptx_to_pdf">>
    [] e = "png" -> <<"convert_png_to_pdf">>
    [] OTHER -> <<>>

\* file_converter.py, convert_file; convert_docx_to_pdf nests three methods
file_methods(e) ==
  CASE e \in {"docx", "doc"} ->
         <<"docx2pdf", "pypandoc", "python-docx + reportlab">>
    [] e \in {"xlsx", "xls"} -> <<"convert_xlsx_to_pdf">>
    [] e \in {"pptx", "ppt"} -> <<"convert_pptx_to_pdf">>
    [] e = "png" -> <<"convert_png_to_pdf">>
    [] OTHER -> <<>>

Methods(p, f) ==
  CASE p = "force_converter" -> force_methods(Lower(f.ext))
    [] p = "improved_converter" -> improved_methods(Lower(f.ext))
    [] p = "file_converter" -> file_methods(Lower(f.ext))
    [] OTHER -> <<>>

(***************************************************************************)
(* Backends.  One invocation of a backend is an event and an effect on the *)
(* output path:                                                            *)
(*   ev   "unavailable"  not installed / not importable / not found        *)
(*        "ok"           returned normally, exit code 0                    *)
(*        "error"        raised a backend error, or exit code non-zero     *)
(*        "timeout"      subprocess.TimeoutExpired (run(..., timeout=))    *)
(*        "hang"         the call never returns (no time budget)           *)
(*   w    Keep, 0 (an empty file), or a size in 1..MaxSize                 *)
(***************************************************************************)
\* the adapters that run their backend with subprocess.run(..., timeout=...)
HasTimeout(p, name) ==
  \/ p = "force_converter" /\ name \in {"LibreOffice", "Pandoc"}
  \/ p = "improved_converter" /\ name = "LibreOffice"

\* A backend that does not finish is cut off by the time budget where the
\* adapter gives one; where it gives none, the call does not return.
Events(p, name) ==
  {"unavailable", "ok", "error"}
    \cup (IF HasTimeout(p, name) THEN {"timeout"} ELSE {"hang"})

\* Only the copy test compares sizes, and only for equality with a source
\* PDF's size: one size of non-empty output meets both an equal and a
\* different source size.
OutputSizes == {1}

Behaviours(p, name) ==
  { b \in [ev : Events(p, name), w : {Keep, 0} \cup OutputSizes] :
      b.ev \in {"unavailable", "hang"} => b.w = Keep }

\* mutant: a child that ran out of its time budget is left running
ChildKilled_never(ev) == FALSE

\* subprocess.run(cmd, timeout=...): on TimeoutExpired run() kills the child
\* and waits for it before it raises
ChildKilled(ev) == ev = "timeout"

\* the child ended by itself, with exit code 0 or another
ChildExited(ev) == ev \in {"ok", "error"}

\* The children of one subprocess.run call still running when the call is
\* over; no child was started when the command was not found.
ChildrenAfterRun(ev) ==
  IF ev = "unavailable" \/ ChildExited(ev) \/ ChildKilled(ev) THEN 0 ELSE 1

\* the output path after the backend ran
Written(d, path, w) == IF w = Keep THEN d ELSE [d EXCEPT ![path] = w]

\* os.path.exists(path)
Exists(d, path) == d[path] # Absent

(***************************************************************************)
(* What an adapter function hands back to its caller: "True", "False",     *)
(* "Raise" (an exception leaves the function) or "ImportError".            *)
(***************************************************************************)
\* force_converter.py: every adapter catches Exception and returns False
force_adapter(name, ev, exists) ==
  CASE name \in {"LibreOffice", "Pandoc"} ->
         IF ev = "ok" /\ exists THEN "True" ELSE "False"
    [] OTHER -> IF ev = "ok" THEN "True" ELSE "False"

\* improved_converter.py: the chain's adapters re-raise; LibreOffice returns
\* os.path.exists(output_file) on exit code 0 and False on another exit code
improved_adapter(name, ev, exists) ==
  CASE name \in {"docx2pdf", "python-docx + reportlab"} ->
         IF ev = "ok" THEN "True" ELSE "Raise"
    [] name = "LibreOffice" ->
         IF ev = "ok" THEN (IF exists THEN "True" ELSE "False")
         ELSE IF ev = "error" THEN "False" ELSE "Raise"
    [] OTHER -> IF ev = "ok" THEN "True" ELSE "False"

\* file_converter.py: the methods of convert_docx_to_pdf are the bodies of its
\* nested try statements; the other converters catch Exception
file_adapter(name, ev, exists) ==
  CASE name \in {"docx2pdf", "pypandoc"} ->
         IF ev = "ok" THEN "True"
         ELSE IF ev = "unavailable" THEN "ImportError" ELSE "Raise"
    [] OTHER -> IF ev = "ok" THEN "True" ELSE "False"

AdapterReturn(p, name, ev, exists) ==
  CASE p = "force_converter" -> force_adapter(name, ev, exists)
    [] p = "improved_converter" -> improved_adapter(name, ev, exists)
    [] OTHER -> file_adapter(name, ev, exists)

\* the reason the attempt leaves in the log ("none": nothing is logged)
LoggedReason(p, name, ev, ret) ==
  CASE p = "force_converter" -> IF ret = "False" THEN ev ELSE "none"
    [] p = "improved_converter" ->
         IF name \in {"docx2pdf", "python-docx + reportlab", "LibreOffice"}
         THEN (IF ret = "Raise" THEN ev ELSE "none")
         ELSE (IF ret = "False" THEN ev ELSE "none")
    [] OTHER ->
         IF name = "pypandoc" THEN "none"
         ELSE IF name = "docx2pdf" THEN (IF ret = "Raise" THEN ev ELSE "none")
         ELSE (IF ret = "False" THEN ev ELSE "none")

(***************************************************************************)
(* The orchestrators: what the per-file conversion function does with the  *)
(* k-th of its n candidates once the adapter has handed back ret.          *)
(*   "return_true", "return_false", "next" (try candidate k+1), "escape"   *)
(*   (the exception leaves the conversion function).                       *)
(***************************************************************************)
\* os.path.exists(output_file) and os.path.getsize(output_file) > 0
Validated(d, path) == Exists(d, path) /\ d[path] > 0

\* mutant: the loop does not stop at a validated success
force_decide_no_stop(ret, valid, k, n) ==
  IF k < n THEN "next"
  ELSE IF ret = "True" /\ valid THEN "return_true" ELSE "return_false"

\* force_convert_file: a True is believed only with a non-empty output file
force_decide(ret, valid, k, n) ==
  IF ret = "True" /\ valid THEN "return_true"
  ELSE IF k < n THEN "next" ELSE "return_false"

\* mutant: the first failure ends the chain
improved_decide_first_only(ret, valid, k, n) ==
  IF ret = "True" THEN "return_true" ELSE "return_false"

\* improved convert_docx_to_pdf (and the one-backend converters, n = 1):
\* a True is returned as it is
improved_decide(ret, valid, k, n) ==
  IF ret = "True" THEN "return_true"
  ELSE IF k < n THEN "next" ELSE "return_false"

\* file_converter convert_docx_to_pdf: only an ImportError reaches the next
\* method; another exception of method 1 is caught by the outer handler, and
\* one of method 2 is raised inside the ImportError handler, where no handler
\* of the statement catches it
file_decide(name, ret, valid, k, n) ==
  IF ret = "True" THEN "return_true"
  ELSE IF ret = "ImportError" THEN "next"
  ELSE IF ret = "Raise" /\ name = "pypandoc" THEN "escape"
  ELSE "return_false"

Decide(p, name, ret, valid, k, n) ==
  CASE p = "force_converter" -> force_decide(ret, valid, k, n)
    [] p = "improved_converter" -> improved_decide(ret, valid, k, n)
    [] OTHER -> file_decide(name, ret, valid, k, n)

\* the for loop over methods: the candidate after the k-th
NextCandidate(k) == k + 1

(***************************************************************************)
(* The resume and copy predicates.                                         *)
(***************************************************************************)
\* mutant: the size is not looked at
ResumeIfExists(d, path) == Exists(d, path)

\* mutant: no resume test
ResumeNever(d, path) == FALSE

\* os.path.exists(output_path) and os.path.getsize(output_path) > 0
ResumePredicate(d, path) == Exists(d, path) /\ d[path] > 0

\* mutant: the sizes are not compared
CopyIfMissing(d, f) == ~Exists(d, CopyTarget(f))

\* not os.path.exists(target_file) or getsize(source) != getsize(target)
CopyNeeded(d, f) ==
  ~Exists(d, CopyTarget(f)) \/ f.size # d[CopyTarget(f)]

\* mutant: a target that exists is never copied again
CopyNeededScript_no_size_test(d, f) == ~Exists(d, CopyTarget(f))

\* copy_pdf_file: the same test, nested
CopyNeededScript(d, f) ==
  IF Exists(d, CopyTarget(f))
  THEN (IF f.size = d[CopyTarget(f)] THEN FALSE ELSE TRUE)
  ELSE TRUE

\* shutil.copy2(source_file, target_file)
Copy2(d, f) == [d EXCEPT ![CopyTarget(f)] = f.size]

\* force_converter.py, copy_existing_pdfs: the destination tree after the walk
\* over the source PDFs l, begun on the tree d
RECURSIVE copy_existing_pdfs(_, _)
copy_existing_pdfs(d, l) ==
  IF l = <<>> THEN d
  ELSE copy_existing_pdfs(IF CopyNeeded(d, Head(l)) THEN Copy2(d, Head(l)) ELSE d,
                          Tail(l))

\* copy_existing_pdfs.py, copy_pdf_file: the destination tree after one call
copy_pdf_file(d, f) == IF CopyNeededScript(d, f) THEN Copy2(d, f) ELSE d

\* copy_existing_pdfs.py, main: copy_pdf_file for every file of find_pdf_files
RECURSIVE copy_pdf_files(_, _)
copy_pdf_files(d, l) ==
  IF l = <<>> THEN d ELSE copy_pdf_files(copy_pdf_file(d, Head(l)), Tail(l))

(***************************************************************************)
(* State.                                                                  *)
(***************************************************************************)
VARIABLES
  srcTree,          \* the files under source_dir
  walk,             \* the order in which os.walk lists them
  dst,              \* size of every path under target_dir (Absent: no file)
  dstDirs,          \* the directories that exist under target_dir
  prog,             \* the script of the current (or last) run
  prevProg,         \* the script of the run before it
  run,              \* number of runs started
  pc,               \* "idle", "copy", "loop", "task", "return", "crashed",
                    \* "hung", "called"
  todo,             \* the list the current loop iterates over
  idx,              \* position of the loop in todo
  methods,          \* the candidates of the file being converted
  k,                \* the candidate being tried
  attempts,         \* the adapter invocations made for the file, in order
  result,           \* what the conversion function returned ("none": not yet)
  outcome,          \* what the run decided for each file
  converted_count,  \* converted_count / converted
  failed_count,     \* failed_count / failed
  failed_files,     \* improved_converter's list of failed paths
  copied,           \* the copy pass's counter
  dstAtStart,       \* dst as the current run found it
  children,         \* external processes started by adapters and still running
  makedirs_calls,   \* os.makedirs calls made for the file being converted
  input_file,       \* the argument of a direct call of a conversion function
  touched           \* the directories the scripts have made or written into

vars ==
  << srcTree, walk, dst, dstDirs, prog, prevProg, run, pc, todo, idx, methods,
     k, attempts, result, outcome, converted_count, failed_count, failed_files, copied,
     dstAtStart, children, makedirs_calls, input_file, touched >>

\* A fresh, empty destination and no run yet.
Init ==
  /\ srcTree \in SourceTrees
  /\ walk \in WalkOrders(srcTree)
  /\ dst = [q \in DestPaths |-> Absent]
  /\ dstDirs = {}
  /\ prog = "none"
  /\ prevProg = "none"
  /\ run = 0
  /\ pc = "idle"
  /\ todo = <<>>
  /\ idx = 1
  /\ methods = <<>>
  /\ k = 1
  /\ attempts = <<>>
  /\ result = "none"
  /\ outcome = [f \in srcTree |-> "none"]
  /\ converted_count = 0
  /\ failed_count = 0
  /\ failed_files = <<>>
  /\ copied = 0
  /\ dstAtStart = dst
  /\ children = 0
  /\ makedirs_calls = 0
  /\ input_file = <<>>
  /\ touched = {}

\* the directories of the source tree, as os.walk visits them
SourceDirs == {"."} \cup { f.dir : f \in srcTree }

\* what every main() does first: fresh counters, nothing decided yet
Begin(p) ==
  /\ pc \in {"idle", "crashed"}
  /\ run < MaxRuns
  /\ run' = run + 1
  /\ prevProg' = prog
  /\ prog' = p
  /\ idx' = 1
  /\ methods' = <<>>
  /\ k' = 1
  /\ attempts' = <<>>
  /\ result' = "none"
  /\ outcome' = [f \in srcTree |-> "none"]
  /\ converted_count' = 0
  /\ failed_count' = 0
  /\ failed_files' = <<>>
  /\ copied' = 0
  /\ dstAtStart' = dst
  /\ makedirs_calls' = 0
  /\ UNCHANGED << srcTree, walk, dst, children, input_file >>

\* file_converter.py main: makedirs, create_directory_structure, then the walk
StartFileConverter ==
  /\ Begin("file_converter")
  /\ dstDirs' = dstDirs \cup SourceDirs
  /\ touched' = touched \cup {target_dir}
                   \cup { target_path(dn) : dn \in SourceDirs \ {"."} }
  /\ todo' = walk
  /\ pc' = "loop"

\* improved_converter.py main: the same, and all_files collected first
StartImproved ==
  /\ Begin("improved_converter")
  /\ dstDirs' = dstDirs \cup SourceDirs
  /\ touched' = touched \cup {target_dir}
                   \cup { target_path(dn) : dn \in SourceDirs \ {"."} }
  /\ todo' = SelectSeq(walk, IsSupported)
  /\ pc' = "loop"

\* force_converter.py main: the PDF copy pass comes first
StartForce ==
  /\ Begin("force_converter")
  /\ dstDirs' = dstDirs
  /\ touched' = touched
  /\ todo' = SelectSeq(walk, IsPdf)
  /\ pc' = "copy"

\* copy_existing_pdfs.py main: find_pdf_files; nothing found, nothing done
StartCopy ==
  /\ Begin("copy_existing_pdfs")
  /\ dstDirs' = dstDirs
  /\ touched' = touched
  /\ todo' = SelectSeq(walk, IsPdf)
  /\ pc' = IF SelectSeq(walk, IsPdf) = <<>> THEN "idle" ELSE "copy"

\* One source PDF of the copy pass: force_converter's copy_existing_pdfs, or
\* copy_existing_pdfs.py's copy_pdf_file (which answers True for a skip too).
CopyStep ==
  /\ pc = "copy"
  /\ idx <= Len(todo)
  /\ LET f == todo[idx]
         need == IF prog = "force_converter" THEN CopyNeeded(dst, f)
                 ELSE CopyNeededScript(dst, f)
     IN /\ dstDirs' = dstDirs \cup {f.dir}
        /\ touched' = touched \cup {target_folder(f)}
        /\ dst' = IF need THEN Copy2(dst, f) ELSE dst
        /\ outcome' = [outcome EXCEPT ![f] = IF need THEN "copied" ELSE "skipped"]
        /\ copied' = IF prog = "force_converter" /\ ~need THEN copied
                     ELSE copied + 1
  /\ idx' = idx + 1
  /\ UNCHANGED << srcTree, walk, prog, prevProg, run, pc, todo, methods, k,
                  attempts, result, converted_count, failed_count, failed_files,
                  dstAtStart, children, makedirs_calls, input_file >>

\* the work list's test: not yet converted
NeedsConversion(f) == IsSupported(f) /\ ~ResumePredicate(dst, OutputPath(f))

\* force_converter.py main after the copy pass: files_to_convert is built in
\* one walk, before any file is converted
ForceScan ==
  /\ pc = "copy"
  /\ prog = "force_converter"
  /\ idx > Len(todo)
  /\ todo' = SelectSeq(walk, NeedsConversion)
  /\ outcome' = [f \in srcTree |->
                   IF IsSupported(f) /\ ~NeedsConversion(f) THEN "skipped"
                   ELSE outcome[f]]
  /\ idx' = 1
  /\ pc' = "loop"
  /\ UNCHANGED << srcTree, walk, dst, dstDirs, prog, prevProg, run, methods, k,
                  attempts, result, converted_count, failed_count, failed_files,
                  copied, dstAtStart, children, makedirs_calls, input_file,
                  touched >>

\* the conversion function is entered for todo[idx]
EnterTask ==
  /\ methods' = Methods(prog, todo[idx])
  /\ k' = 1
  /\ attempts' = <<>>
  /\ makedirs_calls' = 0
  /\ pc' = "task"
  /\ UNCHANGED << idx, result, outcome, converted_count, failed_count,
                  failed_files >>

\* file_converter.py main loop: an unsupported file is passed over, every
\* supported file is converted
FileNext ==
  /\ pc = "loop"
  /\ prog = "file_converter"
  /\ idx <= Len(todo)
  /\ IF IsSupported(todo[idx])
     THEN EnterTask
     ELSE /\ idx' = idx + 1
          /\ UNCHANGED << pc, methods, k, attempts, result, outcome,
                          converted_count, failed_count, failed_files,
                          makedirs_calls >>
  /\ UNCHANGED << srcTree, walk, dst, dstDirs, prog, prevProg, run, todo,
                  copied, dstAtStart, children, input_file, touched >>

\* improved_converter.py main loop: the resume check, made when the file's
\* turn comes; a skipped file is counted as converted
ImprovedNext ==
  /\ pc = "loop"
  /\ prog = "improved_converter"
  /\ idx <= Len(todo)
  /\ IF ResumePredicate(dst, OutputPath(todo[idx]))
     THEN /\ outcome' = [outcome EXCEPT ![todo[idx]] = "skipped"]
          /\ converted_count' = converted_count + 1
          /\ idx' = idx + 1
          /\ UNCHANGED << pc, methods, k, attempts, result, failed_count,
                          failed_files, makedirs_calls >>
     ELSE EnterTask
  /\ UNCHANGED << srcTree, walk, dst, dstDirs, prog, prevProg, run, todo,
                  copied, dstAtStart, children, input_file, touched >>

\* force_converter.py main loop: every file of files_to_convert is converted
ForceNext ==
  /\ pc = "loop"
  /\ prog = "force_converter"
  /\ idx <= Len(todo)
  /\ EnterTask
  /\ UNCHANGED << srcTree, walk, dst, dstDirs, prog, prevProg, run, todo,
                  copied, dstAtStart, children, input_file, touched >>

\* mutant: no adapter makes the output directory
MakesDir_never(p, ev) == FALSE

\* force_converter's adapters call os.makedirs(output_dir, exist_ok=True)
\* themselves, each once its backend is found to be there and before it runs
\* it; the adapters of the other scripts do not
MakesDir(p, ev) == p = "force_converter" /\ ev # "unavailable"

DirsAfter(ev, f) ==
  IF MakesDir(prog, ev) THEN dstDirs \cup {f.dir} ELSE dstDirs

\* One adapter invocation, and what the conversion function does with the
\* adapter's answer.  A call that never returns leaves the run where it is.
Attempt ==
  /\ pc = "task"
  /\ k <= Len(methods)
  /\ LET f == todo[idx]
         path == OutputPath(f)
         name == methods[k]
     IN \E b \in Behaviours(prog, name) :
          LET d1 == Written(dst, path, b.w)
              ret == AdapterReturn(prog, name, b.ev, Exists(d1, path))
              valid == Validated(d1, path)
              dec == Decide(prog, name, ret, valid, k, Len(methods))
              rec == [name |-> name, ev |-> b.ev, ret |-> ret,
                      ok |-> (ret = "True" /\ valid),
                      dir |-> (f.dir \in DirsAfter(b.ev, f))]
          IN IF b.ev = "hang"
             THEN /\ pc' = "hung"
                  /\ UNCHANGED << dst, dstDirs, attempts, k, result, children,
                                  makedirs_calls, touched >>
             ELSE /\ dst' = d1
                  /\ dstDirs' = DirsAfter(b.ev, f)
                  /\ touched' =
                       touched
                         \cup (IF MakesDir(prog, b.ev)
                               THEN {output_path(f).dir} ELSE {})
                         \cup (IF b.w # Keep THEN write_dirs(name, f) ELSE {})
                  /\ makedirs_calls' =
                       IF MakesDir(prog, b.ev) THEN makedirs_calls + 1
                       ELSE makedirs_calls
                  /\ children' =
                       IF HasTimeout(prog, name)
                       THEN children + ChildrenAfterRun(b.ev) ELSE children
                  /\ attempts' = Append(attempts, rec)
                  /\ CASE dec = "next" ->
                            k' = NextCandidate(k) /\ UNCHANGED << pc, result >>
                       [] dec = "return_true" ->
                            result' = "True" /\ pc' = "return" /\ UNCHANGED k
                       [] dec = "return_false" ->
                            result' = "False" /\ pc' = "return" /\ UNCHANGED k
                       [] OTHER ->
                            pc' = "crashed" /\ UNCHANGED << k, result >>
  /\ UNCHANGED << srcTree, walk, prog, prevProg, run, todo, idx, methods,
                  outcome, converted_count, failed_count, failed_files, copied,
                  dstAtStart, input_file >>

\* main() counts the answer of the conversion function and goes on to the next
\* file
Return ==
  /\ pc = "return"
  /\ LET f == todo[idx]
     IN IF result = "True"
        THEN /\ outcome' = [outcome EXCEPT ![f] = "converted"]
             /\ converted_count' = converted_count + 1
             /\ UNCHANGED << failed_count, failed_files >>
        ELSE /\ outcome' = [outcome EXCEPT ![f] = "failed"]
             /\ failed_count' = failed_count + 1
             /\ failed_files' = IF prog = "improved_converter"
                                THEN Append(failed_files, f) ELSE failed_files
             /\ UNCHANGED converted_count
  /\ idx' = idx + 1
  /\ pc' = "loop"
  /\ methods' = <<>>
  /\ k' = 1
  /\ attempts' = <<>>
  /\ result' = "none"
  /\ UNCHANGED << srcTree, walk, dst, dstDirs, prog, prevProg, run, todo,
                  copied, dstAtStart, children, makedirs_calls, input_file,
                  touched >>

\* the loop is over: the summary is written and main() returns
Finish ==
  /\ \/ pc = "loop"
     \/ pc = "copy" /\ prog = "copy_existing_pdfs"
  /\ idx > Len(todo)
  /\ pc' = "idle"
  /\ UNCHANGED << srcTree, walk, dst, dstDirs, prog, prevProg, run, todo, idx,
                  methods, k, attempts, result, outcome, converted_count,
                  failed_count, failed_files, copied, dstAtStart, children,
                  makedirs_calls, input_file, touched >>

\* A conversion function (convert_file, force_convert_file) called with a file
\* that main() would have passed over: the dispatch on the lowered extension
\* finds no converter, and the function answers False.  With candidates it
\* would go on to invoke them.
CallUnsupported ==
  /\ pc = "idle"
  /\ input_file = <<>>
  /\ \E p \in Programs \ {"copy_existing_pdfs"}, f \in srcTree :
       /\ ~IsSupported(f)
       /\ input_file' = <<f>>
       /\ methods' = Methods(p, f)
       /\ IF Methods(p, f) = <<>>
          THEN result' = "False" /\ pc' = "called"
          ELSE result' = "none" /\ pc' = "task"
  /\ UNCHANGED << srcTree, walk, dst, dstDirs, prog, prevProg, run, todo, idx,
                  k, attempts, outcome, converted_count, failed_count,
                  failed_files, copied, dstAtStart, children, makedirs_calls,
                  touched >>

\* the caller has the answer
CallReturns ==
  /\ pc = "called"
  /\ pc' = "idle"
  /\ input_file' = <<>>
  /\ methods' = <<>>
  /\ result' = "none"
  /\ UNCHANGED << srcTree, walk, dst, dstDirs, prog, prevProg, run, todo, idx,
                  k, attempts, outcome, converted_count, failed_count,
                  failed_files, copied, dstAtStart, children, makedirs_calls,
                  touched >>

Next ==
  \/ StartFileConverter
  \/ StartImproved
  \/ StartForce
  \/ StartCopy
  \/ CopyStep
  \/ ForceScan
  \/ FileNext
  \/ ImprovedNext
  \/ ForceNext
  \/ Attempt
  \/ Return
  \/ Finish
  \/ CallUnsupported
  \/ CallReturns

Spec == Init /\ [][Next]_vars

\* a run has ended by returning from main()
Done == pc = "idle" /\ run > 0

(***************************************************************************)
(* Properties.                                                             *)
(***************************************************************************)
Resuming == {"improved_converter", "force_converter"}

\* the file whose conversion function is running or has just returned
InTask == pc \in {"task", "return"}

\* the reason an attempt left in the log
ReasonOf(a) == LoggedReason(prog, a.name, a.ev, a.ret)

C2_FallbackOrdering ==
  InTask =>
    /\ Len(attempts) <= Len(methods)
    /\ \A i \in 1..Len(attempts) : attempts[i].name = methods[i]
    /\ \A i \in 1..(Len(attempts) - 1) : ~attempts[i].ok
    /\ pc = "task" =>
         /\ k = Len(attempts) + 1
         /\ \A i \in 1..Len(attempts) : ~attempts[i].ok
    /\ \A i \in 1..Len(attempts) :
         attempts[i].ok => pc = "return" /\ result = "True" /\ Len(attempts) = i

\* C2, its case: candidates [A, B, C], A unavailable, B a validated success
C2_Witness ==
  /\ pc = "return"
  /\ result = "True"
  /\ Len(methods) = 3
  /\ Len(attempts) = 2
  /\ attempts[1].ev = "unavailable"
  /\ attempts[2].ok

\* C3 as stated: an attempt whose adapter reported success over an absent or
\* empty destination is not the one the function returns True on; the next
\* candidate is tried, or False returned when none is left.
C3_ValidationDistrust ==
  (InTask /\ prog \in Resuming) =>
    \A i \in 1..Len(attempts) :
      (attempts[i].ret = "True" /\ ~attempts[i].ok) =>
        IF i < Len(methods)
        THEN Len(attempts) > i \/ (pc = "task" /\ k = i + 1)
        ELSE pc = "return" /\ result = "False"

\* C4 as stated: a file is counted as converted only while its destination
\* exists with non-zero size.
C4_ConvertedHasOutput ==
  (pc = "return" /\ result = "True") => Validated(dst, OutputPath(todo[idx]))

\* C5: when a convertible file's turn for the resume test comes
\* (improved_converter: in the main loop; force_converter: in the walk that
\* builds files_to_convert), a destination that exists with non-zero size makes
\* the file skipped, with no adapter invoked for it in the run; an absent or
\* empty destination hands the file to the conversion function.
C5_ResumePredicate ==
  [][ /\ (pc = "loop" /\ prog = "improved_converter" /\ idx <= Len(todo)) =>
           LET f == todo[idx]
               size == dst[OutputPath(f)]
           IN IF size # Absent /\ size > 0
              THEN /\ outcome'[f] = "skipped"
                   /\ pc' = "loop"
                   /\ dst' = dst
                   /\ attempts' = <<>>
              ELSE /\ pc' = "task"
                   /\ todo'[idx'] = f
                   /\ Len(methods') >= 1
      /\ (pc = "copy" /\ prog = "force_converter" /\ idx > Len(todo)) =>
           \A f \in srcTree :
             IsSupported(f) =>
               LET size == dst[OutputPath(f)]
               IN IF size # Absent /\ size > 0
                  THEN /\ outcome'[f] = "skipped"
                       /\ \A i \in 1..Len(todo') : todo'[i] # f
                  ELSE \E i \in 1..Len(todo') : todo'[i] = f
      /\ (pc = "loop" /\ prog = "force_converter" /\ idx <= Len(todo)) =>
           pc' = "task" /\ Len(methods') >= 1
      /\ \A f \in srcTree :
           (outcome[f] = "skipped" /\ run' = run) =>
             /\ outcome'[f] = "skipped"
             /\ (pc' \in {"task", "return"} /\ prog \in Resuming) => todo'[idx'] # f
    ]_vars

\* C5, its case: in one run a file is skipped for its non-empty destination and
\* another, whose destination was missing or empty, is converted
C5_Witness ==
  /\ prog \in Resuming
  /\ \E f, g \in srcTree :
       /\ IsSupported(f)
       /\ outcome[f] = "skipped"
       /\ dstAtStart[OutputPath(f)] > 0
       /\ outcome[g] = "converted"

\* C6 as stated: a destination that was non-empty when a run began is left as
\* it was by the run, unless it is the copy of a source PDF whose size differed.
C6_LifecycleInvariant ==
  \A q \in DestPaths :
    dstAtStart[q] > 0 =>
      \/ dst[q] = dstAtStart[q]
      \/ \E f \in srcTree :
           /\ IsPdf(f)
           /\ CopyTarget(f) = q
           /\ dstAtStart[q] # f.size
           /\ dst[q] = f.size

C9_BatchNeverAborts == pc # "crashed"

\* C10 as stated: a conversion function returns False only after its last
\* candidate: a candidate that fails before the last is followed by the next.
C10_FailedAdvances ==
  (pc = "return" /\ result = "False") => Len(attempts) = Len(methods)

\* C11: an attempt whose external process ran out of its time budget is not a
\* success; its process is no longer running when the adapter call is over;
\* and the conversion function goes on to the next candidate, returning False
\* only when the timed-out candidate was the last one.
C11_TimeoutHandling ==
  /\ children = 0
  /\ InTask =>
       \A i \in 1..Len(attempts) :
         attempts[i].ev = "timeout" =>
           /\ HasTimeout(prog, attempts[i].name)
           /\ attempts[i].ret # "True"
           /\ ~attempts[i].ok
           /\ IF i < Len(methods)
              THEN Len(attempts) > i \/ (pc = "task" /\ k = i + 1)
              ELSE pc = "return" /\ result = "False"

\* C11, its case: the first candidate timed out and the second has been tried
C11_Witness ==
  /\ InTask
  /\ Len(attempts) >= 2
  /\ attempts[1].ev = "timeout"
  /\ attempts[2].ev # "unavailable"

\* C12 as stated: when the conversion function of improved_converter or
\* force_converter returns False for a file, no file exists at the file's
\* destination path.
C12_NoDestinationOnFailure ==
  (pc = "return" /\ result = "False" /\ prog \in Resuming) =>
    ~Exists(dst, OutputPath(todo[idx]))

\* the destination a discovered file is given: the conversion output of a
\* convertible file, the copy of a source PDF
AssignedPath(f) == IF IsPdf(f) THEN CopyTarget(f) ELSE OutputPath(f)

\* the files a run of force_converter discovers
Discovered(f) == IsSupported(f) \/ IsPdf(f)

\* C13 as stated: in a run of force_converter no two distinct discovered
\* source files are given the same destination path, and no convertible file
\* is skipped on account of a destination that another source file of the run
\* produced (one that was not there, non-empty, when the run began).
C13_NoSharedDestination ==
  (prog = "force_converter" /\ pc # "copy") =>
    /\ \A f, g \in srcTree :
         (f # g /\ Discovered(f) /\ Discovered(g)) =>
           AssignedPath(f) # AssignedPath(g)
    /\ \A f \in srcTree :
         (IsSupported(f) /\ outcome[f] = "skipped") =>
           dstAtStart[OutputPath(f)] > 0

\* the directory of a source file relative to source_dir, as path components
RelativeDir(f) == IF f.dir = "." THEN <<>> ELSE <<f.dir>>

\* C14: the destination path computed for a convertible file is target_dir
\* joined with the file's directory relative to source_dir, the file name its
\* stem with the extension pdf; a file directly in source_dir goes directly
\* into target_dir.  The path the model files the output under is that path.
C14_MirroredPath ==
  \A f \in srcTree :
    (IsSupported(f) /\ run > 0) =>
      /\ output_path(f).dir = target_dir \o RelativeDir(f)
      /\ output_path(f).name.stem = f.stem
      /\ output_path(f).name.ext = "pdf"
      /\ f.dir = "." => output_path(f).dir = target_dir
      /\ DestFile(OutputPath(f)) = output_path(f)
      /\ (InTask /\ input_file = <<>> /\ todo[idx] = f) =>
           \A q \in DestPaths :
             dst[q] # dstAtStart[q] =>
               \/ DestFile(q) = output_path(f)
               \/ \E i \in 1..(idx - 1) : DestFile(q) = output_path(todo[i])
               \/ \E g \in srcTree : IsPdf(g) /\ q = CopyTarget(g)

\* C14, its case: a file of a subdirectory has been converted into the mirrored
\* subdirectory, in a tree that also holds a file directly in source_dir
C14_Witness ==
  /\ pc = "return"
  /\ result = "True"
  /\ todo[idx].dir = "b"
  /\ dst[OutputPath(todo[idx])] > 0
  /\ output_path(todo[idx]).dir = <<"converted", "b">>
  /\ \E g \in srcTree : g.dir = "." /\ IsSupported(g)

\* the attempts of the current task whose backend was found and invoked
Invoked == { i \in 1..Len(attempts) : attempts[i].ev # "unavailable" }

\* C15 as stated: when force_convert_file is entered for a file, the parent
\* directory of its destination exists before the first adapter is invoked,
\* and it is ensured exactly once in the task.
C15_ParentDirectoryOnce_AsStated ==
  (prog = "force_converter" /\ InTask /\ input_file = <<>>) =>
    /\ attempts = <<>> => todo[idx].dir \in dstDirs
    /\ makedirs_calls <= 1
    /\ pc = "return" => makedirs_calls = 1

\* C15 as amended: every backend that is invoked finds the parent directory of
\* the destination in place.  In force_converter each adapter ensures it
\* itself, after finding its backend and before running it: once per attempt
\* with an available backend, not once per task, and not at all when no
\* backend is available.  In file_converter and improved_converter main() has
\* created the whole mirrored tree before the loop and no adapter ensures it.
C15_ParentDirectory ==
  (InTask /\ input_file = <<>>) =>
    /\ \A i \in Invoked : attempts[i].dir
    /\ prog = "force_converter" => makedirs_calls = Cardinality(Invoked)
    /\ prog # "force_converter" =>
         makedirs_calls = 0 /\ todo[idx].dir \in dstDirs

\* C15, its case: the first task of force_converter on an empty destination
\* with no PDF to copy; two adapters were invoked and each made the directory
C15_Witness ==
  /\ prog = "force_converter"
  /\ InTask
  /\ run = 1
  /\ idx = 1
  /\ \A g \in srcTree : ~IsPdf(g)
  /\ Cardinality(Invoked) = 2
  /\ makedirs_calls = 2
  /\ todo[idx].dir \in dstDirs

\* C16 as stated: the resume decision for a file is made on the destination
\* tree as the earlier files of the run left it, so when the conversion
\* function is entered for a file of a run of improved_converter or
\* force_converter, the file's destination is missing or empty.
C16_SequentialProcessing ==
  (prog \in Resuming /\ pc = "task" /\ attempts = <<>> /\ input_file = <<>>) =>
    ~ResumePredicate(dst, OutputPath(todo[idx]))

\* the scripts whose loops give every file they discover an outcome
Walkers == {"improved_converter", "force_converter", "copy_existing_pdfs"}

\* the files a run of script p discovers
DiscoveredBy(p, f) ==
  \/ p \in Resuming /\ IsSupported(f)
  \/ p \in {"force_converter", "copy_existing_pdfs"} /\ IsPdf(f)

\* the outcomes a discovered file can end in
Terminal(f) ==
  IF IsPdf(f) THEN {"skipped", "copied"} ELSE {"skipped", "converted", "failed"}

C18_BatchTermination == pc # "hung"

\* the files the conversion function answered True for in the current run
ConvertedThisRun == { f \in srcTree : outcome[f] = "converted" }

\* C19 as stated: when a run of improved_converter or force_converter has
\* ended, the converted count of its summary is the number of files converted
\* in this run (files skipped by the resume test not among them), the failed
\* count the number of files that failed (checked on trees in which no two
\* files share a destination).
C19_RunSummary ==
  (/\ Done
   /\ prog \in Resuming
   /\ \A f, g \in srcTree : f # g => AssignedPath(f) # AssignedPath(g)) =>
    /\ converted_count = Cardinality(ConvertedThisRun)
    /\ failed_count = Cardinality({ f \in srcTree : outcome[f] = "failed" })

\* C20: a conversion function called with a file whose lowered extension no
\* format recognises answers False at once: it has no candidate, invokes no
\* adapter, starts no process, and leaves the destination tree, files and
\* directories, as it was.
C20_UnsupportedFormat ==
  [][ (input_file = <<>> /\ input_file' # <<>>) =>
        /\ ~IsSupported(input_file'[1])
        /\ pc' = "called"
        /\ result' = "False"
        /\ methods' = <<>>
        /\ attempts' = attempts
        /\ children' = children
        /\ dst' = dst
        /\ dstDirs' = dstDirs
    ]_vars

\* C20, its case: a conversion function has answered False for n.txt, called
\* after a run that left a file in the destination tree
C20_Witness ==
  /\ pc = "called"
  /\ result = "False"
  /\ input_file # <<>>
  /\ input_file[1].ext = "txt"
  /\ attempts = <<>>
  /\ \E q \in DestPaths : dst[q] > 0

\* the scripts that convert
Converting == {"file_converter", "improved_converter", "force_converter"}

\* C21: the format of a file is decided by its lowered extension (c.XLSX is a
\* spreadsheet); an extension passes the test of at most one branch of the
\* dispatch, and of exactly one just when main()'s filter lets the file
\* through, and then each script has candidates for it; a run enters its
\* conversion function only for a file the filter lets through; a file it
\* does not let through gets no conversion outcome (none at all unless it is
\* a PDF of a copy pass) and is counted neither as converted nor as failed.
C21_Classification ==
  \A f \in srcTree :
    /\ Cardinality(FormatsOf(Lower(f.ext))) <= 1
    /\ IsSupported(f) <=> FormatsOf(Lower(f.ext)) # {}
    /\ f.ext \in {"XLSX", "xlsx"} => FormatsOf(Lower(f.ext)) = {"Spreadsheet"}
    /\ f.ext \in {"docx", "doc"} => FormatsOf(Lower(f.ext)) = {"WordDoc"}
    /\ \A p \in Converting : IsSupported(f) <=> Methods(p, f) # <<>>
    /\ (InTask /\ input_file = <<>> /\ todo[idx] = f) => IsSupported(f)
    /\ ~IsSupported(f) =>
         /\ outcome[f] \notin {"converted", "failed"}
         /\ ~IsPdf(f) => outcome[f] = "none"
         /\ prog \in Converting =>
              converted_count + failed_count
                <= Cardinality({ g \in srcTree : IsSupported(g) })

\* C21, its case: a run of force_converter has ended on a tree holding c.XLSX
\* and n.txt; the first was converted, the second has no outcome
C21_Witness ==
  /\ Done
  /\ prog = "force_converter"
  /\ \E f, g \in srcTree :
       /\ f.ext = "XLSX" /\ outcome[f] = "converted"
       /\ g.ext = "txt" /\ outcome[g] = "none"
  /\ converted_count = 1
  /\ failed_count = 0

\* the files a run hands to its conversion function or skips by its resume
\* test: all_files, files_to_convert, or the supported files of the walk
WorkList ==
  IF prog = "file_converter" THEN SelectSeq(todo, IsSupported) ELSE todo

\* a run of a converting script is over: main() has returned, or an exception
\* has left it
RunEnded == prog \in Converting /\ run > 0 /\ pc \in {"idle", "crashed"}

\* C22 as stated: when a conversion run is over, the converted counter plus the
\* failed counter is the number of files of the run's work list, and
\* improved_converter's list of failed files has as many entries as its failed
\* counter says.
C22_CountConservation ==
  RunEnded =>
    /\ converted_count + failed_count = Len(WorkList)
    /\ prog = "improved_converter" => Len(failed_files) = failed_count

\* the source PDFs in the order both implementations meet them
pdf_files == SelectSeq(walk, IsPdf)

Under(root, d) == Len(d) >= Len(root) /\ SubSeq(d, 1, Len(root)) = root

\* C24: no step of a conversion run or of a copy pass changes the source
\* tree, and every directory a script makes or writes a file into (the output
\* directory of an external converter's generated file included) is target_dir
\* or below it, and is not source_dir or below it.
C24_SourceReadOnly ==
  [][ /\ srcTree' = srcTree
      /\ \A d \in touched' : Under(target_dir, d) /\ ~Under(source_dir, d)
    ]_vars

\* C24, its case: force_converter's LibreOffice adapter has converted a file of
\* a subdirectory, its generated file written into the mirrored directory
C24_Witness ==
  /\ prog = "force_converter"
  /\ pc = "return"
  /\ result = "True"
  /\ todo[idx].dir = "b"
  /\ attempts[Len(attempts)].name = "LibreOffice"
  /\ generated_pdf(todo[idx]).dir \in touched
  /\ touched = {<<"converted", "b">>}

====
